---- MODULE Spec2Model ----
(***************************************************************************)
(* Model of bindsnet/preprocessing/__init__.py:                            *)
(*   AbstractPreprocessor  - process() with its content-hash cache         *)
(*   NumentaPreprocessor   - geospatial (coordinate) encoder               *)
(*   AltGeoPreprocessor    - digit one-hot encoder                         *)
(*                                                                         *)
(* Floats are modelled by integers: speeds are whole metres per second,    *)
(* coordinates whole degrees.  hashlib.md5 and the Mersenne Twister of     *)
(* `random` are library code; they are modelled by a small polynomial      *)
(* hash and a small linear congruential generator with the same interface  *)
(* (seed, then draw).  Instances have scale >= 1, timestep >= 0, w >= 0,    *)
(* n >= 1 and non-negative precisions.                                     *)
(***************************************************************************)
EXTENDS Integers, Sequences, FiniteSets, TLC

VARIABLES
    rng,        \* state of the shared generator of module `random`
    numenta,    \* fields of the NumentaPreprocessor instance (scale, w, n, timestep)
    altgeo,     \* fields of the AltGeoPreprocessor instance (g_prec, s_prec, s_max)
    ret,        \* the last encoder method call: its name, arguments and result
    probe,      \* an earlier encoder method call, kept to compare the last one with
    cacheblob,  \* what is stored at the path `cachedfile`
    cachedir,   \* state of os.path.dirname(cachedfile)
    last,       \* the last process() call: arguments, outcome and what it touched
    repeat,     \* whether the last process() call repeated the completed cached call
                \* before it, and the batch that call returned
    origin      \* the instance and the csv file of the call that wrote cacheblob

vars == <<rng, numenta, altgeo, ret, probe, cacheblob, cachedir, last, repeat, origin>>

----------------------------------------------------------------------------
(* Bounds of the model *)

Md5Mod == 1009      \* range of the modelled md5 digest
HashMod == 64       \* models the 2 ** 64 of __hash_coordinate
RandBits == 3       \* models the 64 of getrandbits(64)
MaxKey == 1         \* grid keys range over -MaxKey .. MaxKey
MaxW == 10          \* largest w of an instance
MaxN == 5           \* largest n of an instance
MaxScale == 3       \* largest scale of an instance
MaxTimestep == 3    \* largest timestep of an instance
MaxSpeed == 6       \* largest speed of a record (m/s)
MaxVecW == 4        \* largest w of an instance whose vectors are generated
MaxVecSpeed == 2    \* largest speed of a record that is encoded
MaxVecTimestep == 2 \* largest timestep of an instance whose vectors are generated
MaxPrec == 1        \* largest g_prec and s_prec of an instance
MaxRows == 1        \* largest number of data rows of a csv file

----------------------------------------------------------------------------
(* Python built-ins used by the source *)

Max(a, b) == IF a >= b THEN a ELSE b

\* int(a / b) for b > 0: float division, then truncation toward zero
TruncDiv(a, b) == IF a >= 0 THEN a \div b ELSE -((-a) \div b)

\* int(round(num / den)) for den > 0: Python 3 rounds halves to even
RoundHalfEven(num, den) ==
    LET q == num \div den
        r == num - q * den
    IN  IF 2 * r < den THEN q
        ELSE IF 2 * r > den THEN q + 1
        ELSE IF q % 2 = 0 THEN q ELSE q + 1

\* math.ceil(num / den) for den > 0
CeilDiv(num, den) == -((-num) \div den)

\* the least integer k >= 0 with k * k >= x: math.ceil(math.sqrt(x)) for x >= 0
CeilSqrt(x) == CHOOSE k \in 0 .. x : k * k >= x /\ \A j \in 0 .. (k - 1) : j * j < x

Digit(d) == <<"0", "1", "2", "3", "4", "5", "6", "7", "8", "9">>[d + 1]

RECURSIVE StrNat(_)
StrNat(i) == IF i < 10 THEN <<Digit(i)>> ELSE Append(StrNat(i \div 10), Digit(i % 10))

\* str(i) of an integer: the decimal digits, with a leading '-' when negative
Str(i) == IF i < 0 THEN <<"-">> \o StrNat(-i) ELSE StrNat(i)

\* the byte of a character of a coordinate string
Ord(ch) ==
    CASE ch = "0" -> 48 [] ch = "1" -> 49 [] ch = "2" -> 50 [] ch = "3" -> 51
      [] ch = "4" -> 52 [] ch = "5" -> 53 [] ch = "6" -> 54 [] ch = "7" -> 55
      [] ch = "8" -> 56 [] ch = "9" -> 57 [] ch = "-" -> 45 [] ch = "," -> 44

RECURSIVE Md5(_)
\* int(hashlib.md5(bytes).hexdigest(), 16): a digest of the byte string
Md5(bytes) ==
    IF bytes = <<>> THEN 7
    ELSE (31 * Md5(SubSeq(bytes, 1, Len(bytes) - 1)) + Ord(bytes[Len(bytes)])) % Md5Mod

----------------------------------------------------------------------------
(* module random: one shared generator *)

\* random.seed(a): the generator state is a function of the seed alone
Seed(a) == a % HashMod

\* one step of the generator
Twist(state) == (5 * state + 3) % HashMod

\* random.getrandbits(k) drawn from `state`: the value and the state left behind
GetRandBits(state, k) == [value |-> Twist(state) % (2 ^ k), state |-> Twist(state)]

\* random.randint(a, b) drawn from `state`, for a <= b
RandInt(state, a, b) == [value |-> a + (Twist(state) % (b - a + 1)), state |-> Twist(state)]

----------------------------------------------------------------------------
(* NumentaPreprocessor *)

HashCoordinate(latitude, longitude) ==
    Md5(Str(latitude) \o <<",">> \o Str(longitude)) % HashMod

\* __coordinate_order without its call of seed: the draw continues the shared generator
CoordinateOrderUnseeded(state, latitude, longitude) ==
    GetRandBits(state, RandBits)

\* __coordinate_order called when the shared generator is in `state`
CoordinateOrder(state, latitude, longitude) ==
    GetRandBits(Seed(HashCoordinate(latitude, longitude)), RandBits)

\* __coordinate_bit called when the shared generator is in `state`
CoordinateBit(self, state, latitude, longitude) ==
    RandInt(Seed(HashCoordinate(latitude, longitude)), 0, self.n - 1)

\* __radius without the max(radius, min_radius) of its last line
RadiusUnclamped(self, speed) ==
    RoundHalfEven(3 * speed * self.timestep, 4 * self.scale)

\* __radius: round(speed * timestep / scale / 2 * 1.5), at least ceil((sqrt(w) - 1) / 2)
Radius(self, speed) ==
    LET radius == RoundHalfEven(3 * speed * self.timestep, 4 * self.scale)
        min_radius == CeilDiv(CeilSqrt(self.w) - 1, 2)
    IN  Max(radius, min_radius)

\* the forward spherical Mercator projection of pyproj, in whole metres; linear
\* within one degree of the origin, where the model's coordinates lie
Proj(longitude, latitude) == <<111319 * longitude, 111325 * latitude>>

\* __map_transform: project, then divide by scale and truncate
MapTransform(self, latitude, longitude) ==
    LET xy == Proj(longitude, latitude)
    IN  <<TruncDiv(xy[2], self.scale), TruncDiv(xy[1], self.scale)>>

\* __neighbors: itertools.product of the two ranges, latitude-major
Neighbors(latitude, longitude, radius) ==
    LET side == 2 * radius + 1
    IN  [k \in 1 .. side * side |->
            <<latitude - radius + ((k - 1) \div side), longitude - radius + ((k - 1) % side)>>]

RECURSIVE Orders(_, _)
\* [self.__coordinate_order(n[0], n[1]) for n in neighbors], the generator starting in `state`
Orders(state, neighbors) ==
    IF neighbors = <<>> THEN [values |-> <<>>, state |-> state]
    ELSE LET m == Len(neighbors)
             front == Orders(state, SubSeq(neighbors, 1, m - 1))
             o == CoordinateOrder(front.state, neighbors[m][1], neighbors[m][2])
         IN  [values |-> Append(front.values, o.value), state |-> o.state]

RECURSIVE SortedFrom(_, _)
SortedFrom(orders, S) ==
    IF S = {} THEN {<<>>}
    ELSE UNION {{<<i>> \o p : p \in SortedFrom(orders, S \ {i})} :
                    i \in {j \in S : \A k \in S : orders[j] <= orders[k]}}

\* np.argsort(orders) with the default kind (quicksort, not stable): every index
\* order that sorts `orders` ascending, equal values in any order
ArgSort(orders) == SortedFrom(orders, 1 .. Len(orders))

\* seq[-w:] for w >= 0; seq[-0:] is seq[0:], the whole sequence
SliceLast(seq, w) ==
    IF w = 0 \/ w >= Len(seq) THEN seq ELSE SubSeq(seq, Len(seq) - w + 1, Len(seq))

\* __select: the possible results, each with the generator state left behind
Select(self, state, neighbors) ==
    LET orders == Orders(state, neighbors)
    IN  {[top |-> [k \in 1 .. Len(indices) |-> neighbors[indices[k]]], state |-> orders.state] :
            indices \in {SliceLast(a, self.w) : a \in ArgSort(orders.values)}}

RECURSIVE Bits(_, _, _)
\* [self.__coordinate_bit(w[0], w[1]) for w in top], the generator starting in `state`
Bits(self, state, top) ==
    IF top = <<>> THEN [values |-> <<>>, state |-> state]
    ELSE LET m == Len(top)
             front == Bits(self, state, SubSeq(top, 1, m - 1))
             b == CoordinateBit(self, front.state, top[m][1], top[m][2])
         IN  [values |-> Append(front.values, b.value), state |-> b.state]

\* __generate_vector: the possible results for one data point
GenerateVector(self, state, data_point) ==
    LET cell == MapTransform(self, data_point[2], data_point[3])
        radius == Radius(self, data_point[1])
        neighbors == Neighbors(cell[1], cell[2], radius)
    IN  {LET indices == Bits(self, sel.state, sel.top)
         IN  [radius |-> radius, neighbors |-> neighbors, top |-> sel.top,
              indices |-> indices.values, state |-> indices.state,
              output |-> [i \in 1 .. self.n |->
                            IF \E k \in 1 .. Len(indices.values) : indices.values[k] = i - 1
                            THEN 1 ELSE 0]] :
            sel \in Select(self, state, neighbors)}

----------------------------------------------------------------------------
(* AltGeoPreprocessor *)

\* np.zeros((rows, 10))
Zeros(rows) == [j \in 1 .. rows |-> [d \in 1 .. 10 |-> 0]]

\* int(i) of one character of a digit string; -1 stands for the ValueError of int('-')
IntOf(ch) ==
    IF ch = "-" THEN -1
    ELSE CHOOSE d \in 0 .. 9 : Digit(d) = ch

RECURSIVE Encode(_, _)
\* __encode: row j of mat gets a one in the column of the j-th character of num_str;
\* a row past the end of mat is an IndexError, a '-' is a ValueError
Encode(num_str, mat) ==
    IF num_str = <<>> THEN [raised |-> FALSE, mat |-> mat]
    ELSE LET m == Len(num_str)
             front == Encode(SubSeq(num_str, 1, m - 1), mat)
         IN  IF front.raised \/ m > Len(mat) \/ IntOf(num_str[m]) = -1
             THEN [raised |-> TRUE, mat |-> mat]
             ELSE [raised |-> FALSE,
                   mat |-> [front.mat EXCEPT ![m][IntOf(num_str[m]) + 1] = 1]]

RECURSIVE Flatten(_)
\* np.reshape(mat, -1)
Flatten(mat) == IF mat = <<>> THEN <<>> ELSE mat[1] \o Flatten(Tail(mat))

GDigits(self) == Len(Str(360 * (10 ^ self.g_prec)))

SDigits(self) == Len(Str(self.s_max * (10 ^ self.s_prec)))

\* the body of the loop of AltGeoPreprocessor._process for one row of the file
AltGeoEncodeRow(self, row) ==
    LET gconst == 10 ^ self.g_prec
        sconst == 10 ^ self.s_prec
        latitude == Str((row[2] + 90) * gconst)
        longitude == Str((row[3] + 180) * gconst)
        speed == Str(row[1] * sconst)
        lat == Encode(latitude, Zeros(GDigits(self)))
        long == Encode(longitude, Zeros(GDigits(self)))
        spd == Encode(speed, Zeros(SDigits(self)))
    IN  IF lat.raised \/ long.raised \/ spd.raised
        THEN [raised |-> TRUE]
        ELSE [raised |-> FALSE, v |-> Flatten(lat.mat) \o Flatten(long.mat) \o Flatten(spd.mat)]

\* AltGeoPreprocessor._process over the rows of the file: the batch, or an exception
AltGeoProcess(self, rows) ==
    IF \E i \in 1 .. Len(rows) : AltGeoEncodeRow(self, rows[i]).raised
    THEN [raised |-> TRUE]
    ELSE [raised |-> FALSE, data |-> [i \in 1 .. Len(rows) |-> AltGeoEncodeRow(self, rows[i]).v]]

----------------------------------------------------------------------------
(* AbstractPreprocessor: process() and its cache *)

None == [kind |-> "None"]

\* torch.tensor(values)
Tensor(values) == [kind |-> "tensor", rows |-> values]

\* the str '' that `verify` starts as
EmptyStr == [kind |-> "str"]

\* a csv file that does not exist
NoFile == [exists |-> FALSE]

\* a csv file holding the header line and the given data rows
CsvFile(rows) == [exists |-> TRUE, rows |-> rows]

\* pickle.dump(obj, f): the blob written
PickleDump(obj) == [kind |-> "pickle", obj |-> obj]

\* pickle.load(f) of an existing blob; bytes that are no pickle raise UnpicklingError
PickleLoad(blob) ==
    IF blob.kind = "pickle" THEN [raised |-> FALSE, obj |-> blob.obj]
    ELSE [raised |-> TRUE]

\* __gen_hash: the md5 hexdigest of the lines of the file followed by the class
\* name; two digests are equal exactly when text and name are (no md5 collision)
GenHash(self, csvfile) ==
    IF ~csvfile.exists THEN [raised |-> TRUE]
    ELSE [raised |-> FALSE, digest |-> [kind |-> "md5", text |-> csvfile.rows, name |-> self.cls]]

\* __check_file with a comparison that never succeeds
CheckFileNeverValid(blob, cache) ==
    IF blob.kind # "absent" /\ PickleLoad(blob).raised
    THEN [raised |-> TRUE]
    ELSE [raised |-> FALSE, valid |-> FALSE, cache |-> cache]

\* __check_file: only FileNotFoundError is caught
CheckFile(blob, cache) ==
    IF blob.kind # "absent" /\ PickleLoad(blob).raised
    THEN [raised |-> TRUE]
    ELSE LET temp == IF blob.kind = "absent"
                     THEN [verify |-> EmptyStr, data |-> None]
                     ELSE PickleLoad(blob).obj
         IN  IF cache.verify = temp.verify
             THEN [raised |-> FALSE, valid |-> TRUE, cache |-> [cache EXCEPT !.data = temp.data]]
             ELSE [raised |-> FALSE, valid |-> FALSE, cache |-> cache]

\* __save pickling the data without the hash that was computed for it
SaveDataOnly(dir, data) ==
    IF dir = "" THEN [raised |-> TRUE]
    ELSE [raised |-> FALSE, dir |-> "exists", blob |-> PickleDump([verify |-> EmptyStr, data |-> data.data])]

\* __save: dir is os.path.dirname(filename), "" for a bare file name, else
\* "missing" or "exists"; os.makedirs('') raises FileNotFoundError
Save(dir, data) ==
    IF dir = "" THEN [raised |-> TRUE]
    ELSE [raised |-> FALSE, dir |-> "exists", blob |-> PickleDump(data)]

RECURSIVE NumentaRows(_, _, _)
\* the loop of NumentaPreprocessor._process: the possible lists `values`
NumentaRows(self, state, rows) ==
    IF rows = <<>> THEN {[values |-> <<>>, state |-> state]}
    ELSE LET m == Len(rows)
         IN  UNION {{[values |-> Append(front.values, g.output), state |-> g.state] :
                        g \in GenerateVector(self, front.state, rows[m])} :
                    front \in NumentaRows(self, state, SubSeq(rows, 1, m - 1))}

\* self._process(csvfile, cache): pd.read_csv raises FileNotFoundError for a
\* missing file; otherwise the encoder of the class runs over the rows
RunProcess(self, state, csvfile) ==
    IF ~csvfile.exists THEN {[raised |-> TRUE, error |-> "pd.read_csv", state |-> state]}
    ELSE IF self.cls = "NumentaPreprocessor"
    THEN {[raised |-> FALSE, data |-> Tensor(r.values), state |-> r.state] :
              r \in NumentaRows(self.cfg, state, csvfile.rows)}
    ELSE LET r == AltGeoProcess(self.cfg, csvfile.rows)
         IN  {IF r.raised THEN [raised |-> TRUE, error |-> "__encode", state |-> state]
              ELSE [raised |-> FALSE, data |-> Tensor(r.data), state |-> state]}

\* the outcome of a process() call
Raised(error, state, blob, dir, encoder, read) ==
    [outcome |-> "raised", error |-> error, data |-> None, state |-> state,
     blob |-> blob, dir |-> dir, encoder |-> encoder, read |-> read]

Returned(data, state, blob, dir, encoder, read) ==
    [outcome |-> "returned", error |-> "", data |-> data, state |-> state,
     blob |-> blob, dir |-> dir, encoder |-> encoder, read |-> read]

\* process() with the save in a finally clause: it also runs when _process raised
AfterProcessAlwaysSave(use_cache, p, cache, blob, dir, read) ==
    LET filled == IF p.raised THEN cache ELSE [cache EXCEPT !.data = p.data]
        saved == Save(dir, filled)
    IN  IF use_cache /\ ~saved.raised
        THEN IF p.raised THEN Raised(p.error, p.state, saved.blob, saved.dir, 1, read)
             ELSE Returned(filled.data, p.state, saved.blob, saved.dir, 1, read)
        ELSE IF p.raised THEN Raised(p.error, p.state, blob, dir, 1, read)
        ELSE IF use_cache THEN Raised("__save", p.state, blob, dir, 1, read)
        ELSE Returned(filled.data, p.state, blob, dir, 1, read)

\* process() from the return of _process on: an exception of _process leaves
\* process(); otherwise the cache is saved if use_cache, and the data returned
AfterProcess(use_cache, p, cache, blob, dir, read) ==
    IF p.raised THEN Raised(p.error, p.state, blob, dir, 1, read)
    ELSE LET filled == [cache EXCEPT !.data = p.data]
         IN  IF use_cache
             THEN LET saved == Save(dir, filled)
                  IN  IF saved.raised THEN Raised("__save", p.state, blob, dir, 1, read)
                      ELSE Returned(filled.data, p.state, saved.blob, saved.dir, 1, read)
             ELSE Returned(filled.data, p.state, blob, dir, 1, read)

\* process(csvfile, use_cache, cachedfile) of instance `self`, with the shared
\* generator in `state` and the cache path holding `blob` in directory `dir`:
\* the possible outcomes
ProcessOutcomes(self, state, csvfile, use_cache, blob, dir) ==
    LET cache == [verify |-> EmptyStr, data |-> None]
        compute(c, read) == {AfterProcess(use_cache, p, c, blob, dir, read) :
                                p \in RunProcess(self, state, csvfile)}
    IN  IF use_cache
        THEN LET h == GenHash(self, csvfile)
             IN  IF h.raised THEN {Raised("__gen_hash", state, blob, dir, 0, FALSE)}
                 ELSE LET hashed == [cache EXCEPT !.verify = h.digest]
                          checked == CheckFile(blob, hashed)
                      IN  IF checked.raised
                          THEN {Raised("__check_file", state, blob, dir, 0, TRUE)}
                          ELSE IF checked.valid
                          THEN {Returned(checked.cache.data, state, blob, dir, 0, TRUE)}
                          ELSE compute(checked.cache, TRUE)
        ELSE compute(cache, FALSE)

----------------------------------------------------------------------------
(* Calls of the encoder methods *)

NoCall == [op |-> "none"]

Keys == (-MaxKey) .. MaxKey

\* the variables of process() and its cache, while only encoder methods are called
CacheIdle ==
    /\ cacheblob = [kind |-> "absent"]
    /\ cachedir = "exists"
    /\ last = NoCall
    /\ repeat = [same |-> FALSE, data |-> None]
    /\ origin = NoCall

\* the generator was seeded from the operating system when `random` was imported
InitOrder ==
    /\ rng \in {0, HashMod - 1}
    /\ numenta \in [scale : {5}, w : {21}, n : {1, MaxN}, timestep : {10}]
    /\ altgeo = NoCall
    /\ ret = NoCall
    /\ probe \in [op : {"order", "bit"}, latitude : Keys, longitude : Keys,
                   before : {-1}, value : {-1}, count : {0}, moved : {FALSE}]
    /\ CacheIdle

\* what `probe` becomes when method `op` returned `value` for the key
Observe(op, latitude, longitude, value) ==
    IF probe.op = op /\ probe.latitude = latitude /\ probe.longitude = longitude
    THEN IF probe.count = 0
         THEN [probe EXCEPT !.before = rng, !.value = value, !.count = 1]
         ELSE [probe EXCEPT !.count = 2, !.before = -1,
                            !.moved = (probe.moved \/ (probe.count = 1 /\ rng # probe.before))]
    ELSE probe

CoordinateOrderCall(latitude, longitude) ==
    LET r == CoordinateOrder(rng, latitude, longitude)
    IN  /\ rng' = r.state
        /\ ret' = [op |-> "order", latitude |-> latitude, longitude |-> longitude,
                   value |-> r.value]
        /\ probe' = Observe("order", latitude, longitude, r.value)
        /\ UNCHANGED <<numenta, altgeo, cacheblob, cachedir, last, repeat, origin>>

CoordinateBitCall(latitude, longitude) ==
    LET r == CoordinateBit(numenta, rng, latitude, longitude)
    IN  /\ rng' = r.state
        /\ ret' = [op |-> "bit", latitude |-> latitude, longitude |-> longitude,
                   value |-> r.value]
        /\ probe' = Observe("bit", latitude, longitude, r.value)
        /\ UNCHANGED <<numenta, altgeo, cacheblob, cachedir, last, repeat, origin>>

NextOrder ==
    \/ \E latitude \in Keys, longitude \in Keys : CoordinateOrderCall(latitude, longitude)
    \/ \E latitude \in Keys, longitude \in Keys : CoordinateBitCall(latitude, longitude)

SpecOrder == InitOrder /\ [][NextOrder]_vars

InitRadius ==
    /\ rng = 0
    /\ numenta \in [scale : 1 .. MaxScale, w : 0 .. MaxW, n : {1000}, timestep : 0 .. MaxTimestep]
    /\ altgeo = NoCall
    /\ ret = NoCall
    /\ probe = NoCall
    /\ CacheIdle

\* a call of __radius; `probe` keeps the call before it
RadiusCall(speed) ==
    /\ ret' = [op |-> "radius", speed |-> speed, value |-> Radius(numenta, speed)]
    /\ probe' = ret
    /\ UNCHANGED <<rng, numenta, altgeo, cacheblob, cachedir, last, repeat, origin>>

NextRadius == \E speed \in (-1) .. MaxSpeed : RadiusCall(speed)

SpecRadius == InitRadius /\ [][NextRadius]_vars

InitNumenta ==
    /\ rng \in {0, HashMod - 1}
    /\ numenta \in [scale : {5, 6}, w : 0 .. MaxVecW, n : {1, MaxN}, timestep : 1 .. MaxVecTimestep]
    /\ altgeo = NoCall
    /\ ret = NoCall
    /\ probe = NoCall
    /\ CacheIdle

\* a call of __generate_vector on a fresh torch.zeros(n)
GenerateVectorCall(data_point) ==
    \E r \in GenerateVector(numenta, rng, data_point) :
        /\ rng' = r.state
        /\ ret' = [op |-> "generate_vector", data_point |-> data_point, radius |-> r.radius,
                   neighbors |-> r.neighbors, top |-> r.top, output |-> r.output]
        /\ UNCHANGED <<numenta, altgeo, probe, cacheblob, cachedir, last, repeat, origin>>

NextNumenta ==
    \E speed \in 0 .. MaxVecSpeed, latitude \in {0, 1}, longitude \in {-1, 0} :
        GenerateVectorCall(<<speed, latitude, longitude>>)

SpecNumenta == InitNumenta /\ [][NextNumenta]_vars

AltGeoConfigs == [g_prec : 0 .. MaxPrec, s_prec : 0 .. MaxPrec, s_max : {9, 14, 140}]

InitAltGeo ==
    /\ rng = 0
    /\ numenta = NoCall
    /\ altgeo \in AltGeoConfigs
    /\ ret = NoCall
    /\ probe = NoCall
    /\ CacheIdle

\* a call of AltGeoPreprocessor._process on a file of one row
AltGeoProcessCall(row) ==
    /\ ret' = [op |-> "_process", row |-> row, result |-> AltGeoProcess(altgeo, <<row>>)]
    /\ UNCHANGED <<rng, numenta, altgeo, probe, cacheblob, cachedir, last, repeat, origin>>

NextAltGeo ==
    \E speed \in {0, 5, 14, 150}, latitude \in {-91, -90, -85, 10, 90},
       longitude \in {-180, -80, 20, 180} :
        AltGeoProcessCall(<<speed, latitude, longitude>>)

SpecAltGeo == InitAltGeo /\ [][NextAltGeo]_vars

----------------------------------------------------------------------------
(* Calls of process() *)

CacheNumentaConfigs == [scale : {5}, w : {1}, n : {MaxN - 1, MaxN}, timestep : {1}]

CacheAltGeoConfigs == [g_prec : {0}, s_prec : {0, 1}, s_max : {9}]

\* the data rows a csv file is made of: (speed, latitude, longitude)
Rows == {<<1, 1, -1>>, <<2, 1, -181>>}

RECURSIVE SeqsUpTo(_, _)
SeqsUpTo(S, len) ==
    IF len = 0 THEN {<<>>}
    ELSE SeqsUpTo(S, len - 1) \cup {Append(q, x) : q \in SeqsUpTo(S, len - 1), x \in S}

CsvFiles == {NoFile} \cup {CsvFile(rows) : rows \in SeqsUpTo(Rows, MaxRows)}

\* two instances exist; the cache path holds nothing or bytes that are no pickle
InitCache ==
    /\ rng = 0
    /\ numenta \in CacheNumentaConfigs
    /\ altgeo \in CacheAltGeoConfigs
    /\ ret = NoCall
    /\ probe = NoCall
    /\ cachedir \in {"", "missing", "exists"}
    /\ cacheblob \in {[kind |-> "absent"]} \cup
                      (IF cachedir = "missing" THEN {} ELSE {[kind |-> "garbage"]})
    /\ last = NoCall
    /\ repeat = [same |-> FALSE, data |-> None]
    /\ origin = NoCall

\* NumentaPreprocessor.__init__: a new instance takes the place of the old one
NumentaInit(scale, w, n, timestep) ==
    /\ numenta' = [scale |-> scale, w |-> w, n |-> n, timestep |-> timestep]
    /\ numenta' # numenta
    /\ UNCHANGED <<rng, altgeo, ret, probe, cacheblob, cachedir, last, repeat, origin>>

\* AltGeoPreprocessor.__init__: a new instance takes the place of the old one
AltGeoInit(g_prec, s_prec, s_max) ==
    /\ altgeo' = [g_prec |-> g_prec, s_prec |-> s_prec, s_max |-> s_max]
    /\ altgeo' # altgeo
    /\ UNCHANGED <<rng, numenta, ret, probe, cacheblob, cachedir, last, repeat, origin>>

\* a call of process() on the instance of class `cls`
Process(cls, csvfile, use_cache) ==
    LET self == [cls |-> cls,
                 cfg |-> IF cls = "NumentaPreprocessor" THEN numenta ELSE altgeo]
    IN  \E r \in ProcessOutcomes(self, rng, csvfile, use_cache, cacheblob, cachedir) :
            /\ rng' = r.state
            /\ cacheblob' = r.blob
            /\ cachedir' = r.dir
            /\ last' = [op |-> "process", self |-> self, csvfile |-> csvfile,
                        use_cache |-> use_cache, outcome |-> r.outcome, error |-> r.error,
                        data |-> r.data, encoder |-> r.encoder, read |-> r.read]
            /\ repeat' = IF /\ last.op = "process" /\ last.use_cache /\ use_cache
                            /\ last.outcome = "returned"
                            /\ last.self = self /\ last.csvfile = csvfile
                         THEN [same |-> TRUE, data |-> last.data]
                         ELSE [same |-> FALSE, data |-> None]
            /\ origin' = IF r.blob # cacheblob THEN [self |-> self, csvfile |-> csvfile]
                         ELSE origin
            /\ UNCHANGED <<numenta, altgeo, ret, probe>>

NextCache ==
    \/ \E c \in CacheNumentaConfigs : NumentaInit(c.scale, c.w, c.n, c.timestep)
    \/ \E c \in CacheAltGeoConfigs : AltGeoInit(c.g_prec, c.s_prec, c.s_max)
    \/ \E cls \in {"NumentaPreprocessor", "AltGeoPreprocessor"}, csvfile \in CsvFiles,
          use_cache \in BOOLEAN : Process(cls, csvfile, use_cache)

SpecCache == InitCache /\ [][NextCache]_vars

----------------------------------------------------------------------------
(* Properties of the encoders *)

Ones(v) == Cardinality({i \in 1 .. Len(v) : v[i] = 1})

\* C5: the vector of the spatial encoder has n positions and at most w ones, and
\* the top-w selection keeps at most w cells
SparsityBound ==
    ret.op = "generate_vector" =>
        /\ Len(ret.output) = numenta.n
        /\ Ones(ret.output) <= numenta.w
        /\ Len(ret.top) <= numenta.w

\* C6: a vector of the digit encoder has 2*gdigits*10 + sdigits*10 positions and
\* each block of ten holds exactly one 1
OneHotBlocks ==
    (ret.op = "_process" /\ ~ret.result.raised) =>
        LET v == ret.result.data[1]
        IN  /\ Len(v) = 2 * GDigits(altgeo) * 10 + SDigits(altgeo) * 10
            /\ \A b \in 0 .. ((Len(v) \div 10) - 1) :
                   Cardinality({d \in 1 .. 10 : v[10 * b + d] = 1}) = 1

\* C7: __coordinate_order and __coordinate_bit return for a key what they returned
\* for it before, whatever the generator state and the calls in between, and
\* __coordinate_bit returns an index in [0, n)
Deterministic ==
    /\ (probe.count >= 1 /\ ret.op = probe.op /\ ret.latitude = probe.latitude
            /\ ret.longitude = probe.longitude) => ret.value = probe.value
    /\ ret.op = "bit" => ret.value \in 0 .. (numenta.n - 1)

\* a watched key was drawn twice, from two different generator states
DeterministicWitness ==
    /\ probe.count = 2 /\ probe.moved
    /\ ret.op = probe.op /\ ret.latitude = probe.latitude /\ ret.longitude = probe.longitude

\* the least m >= 0 with (2m + 1)^2 >= w
LeastWindow(w) == CHOOSE m \in 0 .. w : (2 * m + 1) ^ 2 >= w /\ \A j \in 0 .. (m - 1) : (2 * j + 1) ^ 2 < w

\* C8: for w >= 1, radius(0) is the minimum radius, radius does not decrease with
\* speed, and the window of side 2r + 1 holds at least w cells
RadiusLaw ==
    (ret.op = "radius" /\ numenta.w >= 1) =>
        /\ (2 * ret.value + 1) ^ 2 >= numenta.w
        /\ ret.speed = 0 => ret.value = LeastWindow(numenta.w)
        /\ probe.op = "radius" =>
              /\ probe.speed <= ret.speed => probe.value <= ret.value
              /\ ret.speed <= probe.speed => ret.value <= probe.value

\* speed 0 gave the minimum radius of a w > 1 and a higher speed a larger one
RadiusLawWitness ==
    /\ ret.op = "radius" /\ probe.op = "radius" /\ numenta.w > 1
    /\ probe.speed = 0 /\ probe.value >= 1
    /\ ret.speed > 0 /\ ret.value > probe.value

\* the index order of a stable ascending sort of `orders`
StableArgSort(orders) ==
    CHOOSE p \in ArgSort(orders) :
        \A i, j \in 1 .. Len(p) : (i < j /\ orders[p[i]] = orders[p[j]]) => p[i] < p[j]

----------------------------------------------------------------------------
(* Properties of process() and its cache *)

\* C1: a cached call that repeats the file content and the configuration of the
\* completed cached call before it returns the same batch without running _process
CacheHit ==
    repeat.same =>
        /\ last.outcome = "returned"
        /\ last.data = repeat.data
        /\ last.encoder = 0

\* a batch of at least one row was served again from the cache
CacheHitWitness ==
    /\ repeat.same /\ last.outcome = "returned" /\ last.encoder = 0
    /\ last.data.kind = "tensor" /\ Len(last.data.rows) >= 1
    /\ last.data = repeat.data

\* the batches _process can compute for the file
FreshBatches(self, csvfile) == {p.data : p \in {q \in RunProcess(self, 0, csvfile) : ~q.raised}}

\* C2: a cached call whose file or whose instance differs from those of the call
\* that wrote the persisted entry is not served from it: _process runs again
NoStaleEntry ==
    (/\ last.op = "process" /\ last.use_cache /\ last.outcome = "returned"
     /\ origin # NoCall /\ Len(last.csvfile.rows) >= 1
     /\ (origin.csvfile # last.csvfile \/ origin.self # last.self))
        => /\ last.encoder = 1
           /\ last.data \in FreshBatches(last.self, last.csvfile)

\* C3: a cached call that finds the blob absent or unreadable raises no error
\* because of the cache: it runs _process, persists a new entry and returns
UnreadableIsMiss ==
    [][(/\ last'.op = "process" /\ last'.use_cache /\ cachedir # ""
        /\ cacheblob.kind \in {"absent", "garbage"}
        /\ last'.error \notin {"__gen_hash", "pd.read_csv", "__encode"})
          => (/\ last'.outcome = "returned" /\ last'.encoder = 1
              /\ cacheblob'.kind = "pickle" /\ cacheblob'.obj.data = last'.data)]_vars

\* C4: a call that fails for a missing input file or in the encoder returns no
\* batch and leaves the persisted entry as it was
AllOrNothing ==
    [][(/\ last'.op = "process" /\ last'.outcome = "raised"
        /\ last'.error \in {"__gen_hash", "pd.read_csv", "__encode"})
          => (last'.data = None /\ cacheblob' = cacheblob)]_vars

\* the encoder raised in a cached call that missed, and the older entry is still
\* the persisted one
AllOrNothingWitness ==
    /\ last.op = "process" /\ last.use_cache /\ last.outcome = "raised"
    /\ last.error = "__encode" /\ last.encoder = 1
    /\ cacheblob.kind = "pickle" /\ origin.csvfile # last.csvfile

\* C10: the persisted entry changes only in a cached call that missed and whose
\* _process completed, and is then {verify: the hash of the call, data: the batch
\* returned}; a hit and a call without cache leave it, the latter unread
CacheFrame ==
    [][last'.op = "process" =>
        LET c == last'
            wrote == c.use_cache /\ c.encoder = 1 /\ c.outcome = "returned"
        IN  /\ cacheblob' # cacheblob => wrote
            /\ wrote => /\ ~PickleLoad(cacheblob').raised
                        /\ PickleLoad(cacheblob').obj =
                              [verify |-> GenHash(c.self, c.csvfile).digest, data |-> c.data]
            /\ ~c.use_cache => (~c.read /\ cacheblob' = cacheblob)
            /\ (c.use_cache /\ c.encoder = 0) => cacheblob' = cacheblob]_vars

\* a cached call missed an older entry and replaced it by its own
CacheFrameWitness ==
    /\ last.op = "process" /\ last.use_cache /\ last.encoder = 1 /\ last.outcome = "returned"
    /\ last.read /\ Len(last.data.rows) >= 1
    /\ cacheblob = PickleDump([verify |-> GenHash(last.self, last.csvfile).digest, data |-> last.data])
    /\ origin = [self |-> last.self, csvfile |-> last.csvfile]

====
